---- MODULE Spec2Model ----
(***************************************************************************)
(* Model of the process handle of go-shell (type Cmd): Start / Wait / Stop,*)
(* the watcher goroutine handleWait, the timeout callback armed by         *)
(* handleTimeout and the finalize critical section.                        *)
(*                                                                         *)
(* Every goroutine is an agent with a program counter; one action is one   *)
(* step between two accesses of shared state.  Time is abstract: a timer   *)
(* or a context deadline may expire at any moment after it was armed, and  *)
(* the OS process may exit at any moment while it runs.  An unrecovered Go *)
(* panic ends the whole program: once panicked is set no action is enabled.*)
(*                                                                         *)
(* Spec is a handle on which Start is called once, FairSpec adds the       *)
(* scheduler's fairness, SpecRestart is a handle on which Start is called  *)
(* again and again, SpecExit a handle left to end on its own with any exit *)
(* status, SpecCalls a handle whose owner calls Start, Stop and Kill in    *)
(* any order.  SpecStream and SpecBuffer are the two line writers,         *)
(* OutputStream and OutputBuffer, each on its own; SpecWriters is          *)
(* OutputBuffer with its writer threads taken step by step, SpecCopiers    *)
(* the two copier goroutines that fill the buffers of a handle, SpecChan   *)
(* CommandWithChan with its process, its readers and its queue.            *)
(***************************************************************************)
EXTENDS Integers, Sequences, FiniteSets, TLC

\* ------------------------------------------------------------------ bounds
MaxStarts == 2      \* calls of Start on the handle
MaxStops == 1       \* explicit calls of Stop on the handle
MaxWaiters == 1     \* threads calling Wait on the handle
MaxOut == 1         \* chunks the processes write to stdout/stderr
MaxLive == 1        \* watchers in flight at once where the owner's calls are sequenced
MaxBytes == 4       \* bytes written in all to an output writer
MaxQueue == 1       \* capacity of the channel handed to NewOutputStream
MaxCap == 2         \* largest argument of SetLineBufferSize
MaxLines == 2       \* calls of OutputBuffer.Lines
MaxWriters == 2     \* threads calling OutputBuffer.Write at the same time
MaxChanLines == 2   \* lines the process run by CommandWithChan writes
MaxCopies == 2      \* chunks each copier of exec.Cmd carries from its pipe
MaxExitCode == 255  \* largest exit status drawn where the mapping of statuses is checked

Timeouts == {0, 2}            \* WithTimeout(td): 0 = unbounded, 2 as in TestRunTimeout
ExitCodes == {0, 1, 127}      \* exit statuses a process may end with on its own

Bytes == {"a", "b", "\r", "\n"}   \* the bytes a process writes: letters, CR, LF
DefaultBufSize == 16384           \* line buffer of NewOutputStream

\* ---------------------------------------------------------------- errors
\* An error value is the text of its message, a sequence of tokens; nil is the
\* empty sequence.
NoError == <<>>
ErrAlreadyFinished == <<"already finished">>
ErrNotFoundCommand == <<"command not found">>
ErrNotExecutePermission == <<"not execute permission">>
ErrInvalidArgs == <<"Invalid argument to exit">>
ErrProcessTimeout == <<"throw process timeout">>
ErrProcessCancel == <<"active cancel process">>
ErrSpawn == <<"fork/exec: no such file or directory">>   \* error of exec.Cmd.Start
ErrSignalKilled == <<"signal: killed">>       \* ExitError of a SIGKILLed process
ErrNotStarted == <<"exec: not started">>      \* exec.Cmd.Wait without a process
ErrWaitAgain == <<"exec: Wait was already called">>
ErrLineBufferOverflow == <<"line buffer overflow">>

RECURSIVE Digits(_)
Digits(n) ==
    IF n < 10 THEN <<ToString(n)>> ELSE Append(Digits(n \div 10), ToString(n % 10))

\* (*exec.ExitError).Error() of a process that exited with a non-zero status.
ExitError(code) == <<"exit status ">> \o Digits(code)

\* strings.Contains on token sequences.
Contains(s, sub) ==
    \E i \in 0..(Len(s) - Len(sub)) : SubSeq(s, i + 1, i + Len(sub)) = sub

\* An error mapping that hands every error through as it is.
formatExitCodeRaw(err) == err

formatExitCode(err) ==
    IF err = NoError THEN err
    ELSE IF Contains(err, ExitError(127)) THEN ErrNotFoundCommand
    ELSE IF Contains(err, ExitError(126)) THEN ErrNotExecutePermission
    ELSE IF Contains(err, ExitError(128)) THEN ErrInvalidArgs
    ELSE err

\* ---------------------------------------------------------------- agents
HW == {"hw"} \X (1..MaxStarts)      \* handleWait goroutine of the i-th run()
TM == {"tm"} \X (1..MaxStarts)      \* timer callback armed by the i-th handleWait
ST == {"st"} \X (1..MaxStops)       \* threads calling Stop
WT == {"w"} \X (1..MaxWaiters)      \* threads calling Wait
Agents == HW \cup TM \cup ST \cup WT
NoAgent == <<"none", 0>>

VARIABLES
    timeout,      \* Cmd.timeout
    Status,       \* Cmd.Status
    isFinalized,  \* Cmd.isFinalized
    mutex,        \* Cmd.Mutex: the agent holding it, or NoAgent
    doneClosed,   \* doneChan is closed
    statusBuf,    \* statusChan: buffered values (capacity 1)
    statusClosed, \* statusChan is closed
    ctx,          \* Cmd.ctx: "nil", "active", "canceled", "deadline"
    stdcmd,       \* Cmd.stdcmd: 0 = nil, else index into cmds
    cmds,         \* the exec.Cmd objects built by run(), with their OS process
    output,       \* Cmd.output
    stdout,       \* Cmd.stdout
    stderr,       \* Cmd.stderr
    pc,           \* program counter of every agent
    hwCmd,        \* handleWait: the exec.Cmd whose Wait it called
    hwErr,        \* handleWait: local err
    waitRet,      \* value returned by each Wait call
    startRet,     \* values returned by the Start calls, in order
    panicked,     \* "none" or the runtime panic that ended the program
    nCloseDone,   \* executions of close(c.doneChan)
    nCloseStatus, \* executions of close(c.statusChan)
    nCost,        \* computations of Status.CostTime
    finalizedBy,  \* the agent that executed the body of finalize
    finalizedAt,  \* what the process and the context were when it did
    groupKills    \* syscall.Kill(-pid, SIGKILL) calls: <<cmd, state of its process>>

VARIABLES
    streamChan,   \* OutputStream.streamChan: the lines queued in the channel
    bufSize,      \* OutputStream.bufSize = len(OutputStream.buf)
    buf,          \* OutputStream.buf[0:lastChar], the carry-over (bytes past lastChar are never read)
    lastChar,     \* OutputStream.lastChar
    wpc,          \* OutputStream.Write: "idle", or "loop" while a call is in progress
    wP,           \* OutputStream.Write: its argument p
    wFirst,       \* OutputStream.Write: local firstChar
    retN,         \* OutputStream.Write: result n
    retErr,       \* OutputStream.Write: result err
    chunks,       \* the arguments of all Write calls on the stream, in order
    pushed,       \* the lines sent to streamChan, in order
    overflowed,   \* some Write on the stream returned ErrLineBufferOverflow
    obBuf,        \* OutputBuffer.buf: its unread bytes
    obLines,      \* OutputBuffer.lines
    obWritten,    \* the bytes of all Write calls on the buffer, in order
    obRet,        \* result of the last call of OutputBuffer.Lines
    obPrev,       \* result of the call of Lines before the last
    obDirty,      \* Write was called since the last call of Lines
    obQuiet,      \* no Write was called between the last two calls of Lines
    nLines,       \* calls of OutputBuffer.Lines
    obRead,       \* the bytes the scanners of Lines have read out of OutputBuffer.buf
    obMutex,      \* OutputBuffer.Mutex: the writer thread holding it, 0 when free
    bwPc,         \* position of every thread inside OutputBuffer.Write
    bwP,          \* OutputBuffer.Write: argument p of every thread
    bwM,          \* bytes.Buffer.Write: the length m it found before growing
    bwRet         \* OutputBuffer.Write: result n of every thread

ostream == <<streamChan, bufSize, buf, lastChar, wpc, wP, wFirst, retN, retErr, chunks,
             pushed, overflowed>>
VARIABLES
    cwProc,       \* CommandWithChan: the process of runner, "running" or "exited"
    cwPipe,       \* the lines in the stdout and the stderr pipe, not yet read
    cwPipeClosed, \* the read end of each pipe was closed by runner.Wait()
    cwPc,         \* position of each call(in) goroutine: "read", "send", "done"
    cwLine,       \* call(in): its local line
    cwMain,       \* position of CommandWithChan itself: "wait", "close", "done"
    queue,        \* the lines buffered in queue
    queueClosed,  \* close(queue) was executed
    cwWritten,    \* the lines the process has written
    cwQueued,     \* the lines that were put on queue
    cwPanic       \* "none" or the runtime panic that ended the program

VARIABLES
    cpPipe,       \* chunks the process wrote to its stdout / stderr pipe, not yet copied
    cpSent,       \* chunks the process has written to each pipe in all
    cpPc,         \* position of each copier goroutine of exec.Cmd
    cpM           \* bytes.Buffer.Write on c.output: the length m each copier found

copiers == <<cpPipe, cpSent, cpPc, cpM>>

chanrun == <<cwProc, cwPipe, cwPipeClosed, cwPc, cwLine, cwMain, queue, queueClosed,
             cwWritten, cwQueued, cwPanic>>

bwriters == <<obMutex, bwPc, bwP, bwM, bwRet>>
outbuf == <<obBuf, obLines, obWritten, obRet, obPrev, obDirty, obQuiet, nLines, obRead,
            bwriters>>
writers == <<ostream, outbuf, chanrun, copiers>>

chans == <<doneClosed, statusBuf, statusClosed>>
buffers == <<output, stdout, stderr>>
locals == <<hwCmd, hwErr, waitRet, startRet>>
counts == <<nCloseDone, nCloseStatus, nCost>>
ghost == <<finalizedBy, finalizedAt, groupKills>>

handle == <<timeout, Status, isFinalized, mutex, chans, ctx, stdcmd, cmds, buffers, pc,
            locals, panicked, counts, ghost>>

vars == <<handle, writers>>

\* The zero value of Status, as NewCommand leaves it.
StatusZero ==
    [PID |-> 0, Finish |-> FALSE, ExitCode |-> 0, Error |-> NoError,
     CostTime |-> "zero", Output |-> <<>>, Stdout |-> <<>>, Stderr |-> <<>>]

\* NewOutputStream(streamChan) on an empty channel.
NewOutputStream ==
    /\ streamChan = <<>>
    /\ bufSize = DefaultBufSize
    /\ buf = <<>>
    /\ lastChar = 0
    /\ wpc = "idle"
    /\ wP = <<>>
    /\ wFirst = 0
    /\ retN = 0
    /\ retErr = NoError
    /\ chunks = <<>>
    /\ pushed = <<>>
    /\ overflowed = FALSE

\* NewOutputBuffer().
NewOutputBuffer ==
    /\ obBuf = <<>>
    /\ obLines = <<>>
    /\ obWritten = <<>>
    /\ obRet = <<>>
    /\ obPrev = <<>>
    /\ obDirty = FALSE
    /\ obQuiet = FALSE
    /\ nLines = 0
    /\ obRead = <<>>
    /\ obMutex = 0
    /\ bwPc = [i \in 1..MaxWriters |-> "idle"]
    /\ bwP = [i \in 1..MaxWriters |-> <<>>]
    /\ bwM = [i \in 1..MaxWriters |-> 0]
    /\ bwRet = [i \in 1..MaxWriters |-> 0]

\* The two pipes of CommandWithChan.
Pipes == {"stdout", "stderr"}

\* CommandWithChan(cmd, queue) up to runner.Start() and the two go call(...):
\* the process runs, both readers are at ReadLine, the caller is at
\* runner.Wait(), the queue is open and empty.
StartCommandWithChan ==
    /\ cwProc = "running"
    /\ cwPipe = [s \in Pipes |-> <<>>]
    /\ cwPipeClosed = [s \in Pipes |-> FALSE]
    /\ cwPc = [s \in Pipes |-> "read"]
    /\ cwLine = [s \in Pipes |-> <<>>]
    /\ cwMain = "wait"
    /\ queue = <<>>
    /\ queueClosed = FALSE
    /\ cwWritten = {}
    /\ cwQueued = {}
    /\ cwPanic = "none"

\* The streams of the process of a handle.
Streams == {"out", "err"}

\* cmd.Stdout = mergeStdout; cmd.Stderr = mergeStderr: the two are different
\* writers, so exec.Cmd gives each its own pipe and its own copier goroutine.
StartCopiers ==
    /\ cpPipe = [s \in Streams |-> 0]
    /\ cpSent = [s \in Streams |-> 0]
    /\ cpPc = [s \in Streams |-> "read"]
    /\ cpM = [s \in Streams |-> 0]

\* NewCommand(bash, WithTimeout(td)), with an output stream, an output buffer
\* and a CommandWithChan call beside it.
Init ==
    /\ timeout \in Timeouts
    /\ Status = StatusZero
    /\ isFinalized = FALSE
    /\ mutex = NoAgent
    /\ doneClosed = FALSE
    /\ statusBuf = <<>>
    /\ statusClosed = FALSE
    /\ ctx = "nil"
    /\ stdcmd = 0
    /\ cmds = <<>>
    /\ output = <<>>
    /\ stdout = <<>>
    /\ stderr = <<>>
    /\ pc = [a \in Agents |-> IF a \in WT THEN "w_recv" ELSE "idle"]
    /\ hwCmd = [i \in 1..MaxStarts |-> 0]
    /\ hwErr = [i \in 1..MaxStarts |-> NoError]
    /\ waitRet = [j \in 1..MaxWaiters |-> NoError]
    /\ startRet = <<>>
    /\ panicked = "none"
    /\ nCloseDone = 0
    /\ nCloseStatus = 0
    /\ nCost = 0
    /\ finalizedBy = NoAgent
    /\ finalizedAt = [proc |-> "none", ctx |-> "nil"]
    /\ groupKills = {}
    /\ NewOutputStream
    /\ NewOutputBuffer
    /\ StartCommandWithChan
    /\ StartCopiers

\* An unrecovered panic ends the program.
Running == panicked = "none"

Goto(a, l) == pc' = [pc EXCEPT ![a] = l]

\* ------------------------------------------------------------- Start, run
NewCmd(ok) ==
    [started |-> ok,                                  \* stdcmd.Process != nil
     state |-> IF ok THEN "running" ELSE "none",      \* of the OS process
     code |-> 0,                                      \* its exit status
     reaped |-> FALSE]                                \* stdcmd.ProcessState != nil

\* run(): build the context and the exec.Cmd, spawn, launch the watcher.
run(ok) ==
    LET k == Len(cmds) + 1 IN
    /\ ctx' = "active"
    /\ cmds' = Append(cmds, NewCmd(ok))
    /\ stdcmd' = k
    /\ IF ok
       THEN /\ Goto(<<"hw", k>>, "hw_start")
            /\ startRet' = Append(startRet, NoError)
            /\ UNCHANGED Status
       ELSE /\ Status' = [Status EXCEPT !.Error = ErrSpawn]
            /\ startRet' = Append(startRet, ErrSpawn)
            /\ UNCHANGED pc

\* A Start that never refuses a handle.
StartNeverRefuses == FALSE

\* if c.Status.Finish { return ErrAlreadyFinished }
StartRefuses == Status.Finish

\* Start(): whether the OS accepts the spawn is the environment's choice.
Start ==
    /\ Running
    /\ Len(startRet) < MaxStarts
    /\ IF StartRefuses
       THEN /\ startRet' = Append(startRet, ErrAlreadyFinished)
            /\ UNCHANGED <<Status, ctx, cmds, stdcmd, pc>>
       ELSE \E ok \in BOOLEAN : run(ok)
    /\ UNCHANGED <<writers, timeout, isFinalized, mutex, chans, buffers, hwCmd, hwErr, waitRet,
                   panicked, counts, ghost>>

\* The first Start on a fresh handle.
StartOnce ==
    /\ startRet = <<>>
    /\ Start

\* ------------------------------------------------------- the OS processes
\* The process of cmd k writes a chunk to its stdout or stderr; the copier of
\* exec.Cmd appends it to the combined buffer and to the stream's buffer.  Here
\* one copier runs at a time; CopierGrow and CopierCopy below take the two
\* copiers step by step.
ProcWrite(k, stream) ==
    /\ Running
    /\ cmds[k].state = "running"
    /\ Len(output) < MaxOut
    /\ output' = Append(output, stream)
    /\ stdout' = IF stream = "out" THEN Append(stdout, stream) ELSE stdout
    /\ stderr' = IF stream = "err" THEN Append(stderr, stream) ELSE stderr
    /\ UNCHANGED <<writers, timeout, Status, isFinalized, mutex, chans, ctx, stdcmd, cmds, pc,
                   locals, panicked, counts, ghost>>

\* The process of cmd k ends on its own with an exit status.
ProcExit(k, code) ==
    /\ Running
    /\ cmds[k].state = "running"
    /\ cmds' = [cmds EXCEPT ![k].state = "exited", ![k].code = code]
    /\ UNCHANGED <<writers, timeout, Status, isFinalized, mutex, chans, ctx, stdcmd, buffers, pc,
                   locals, panicked, counts, ghost>>

\* The deadline of context.WithTimeout passes.
CtxDeadline ==
    /\ Running
    /\ timeout > 0
    /\ ctx = "active"
    /\ ctx' = "deadline"
    /\ UNCHANGED <<writers, timeout, Status, isFinalized, mutex, chans, stdcmd, cmds, buffers, pc,
                   locals, panicked, counts, ghost>>

\* ------------------------------------------------------------- finalize
\* Where an agent continues when finalize returns: handleWait is over, Stop
\* goes on to kill the process.
AfterFinalize(a) == IF a[1] = "hw" THEN "done" ELSE "st_kill"

\* A finalize without its idempotency guard.
AlreadyFinalizedIgnored == FALSE

\* if c.isFinalized { return }
AlreadyFinalized == isFinalized

\* finalize(), first half: Lock; return at once when isFinalized; otherwise
\* compute CostTime, set Finish, PID and ExitCode.  c.stdcmd.Process.Pid
\* dereferences a nil Process when the current exec.Cmd was never spawned;
\* ProcessState.ExitCode() is -1 for a nil or signaled ProcessState.
FinalizeEnter(a) ==
    /\ Running
    /\ pc[a] = "fin1"
    /\ mutex = NoAgent
    /\ IF AlreadyFinalized
       THEN /\ Goto(a, AfterFinalize(a))
            /\ UNCHANGED <<Status, mutex, nCost, finalizedBy, finalizedAt, panicked>>
       ELSE IF ~cmds[stdcmd].started
       THEN /\ panicked' = "nil pointer dereference"
            /\ UNCHANGED <<Status, mutex, nCost, finalizedBy, finalizedAt, pc>>
       ELSE /\ Status' = [Status EXCEPT
                  !.CostTime = "elapsed",
                  !.Finish = TRUE,
                  !.PID = stdcmd,
                  !.ExitCode = IF cmds[stdcmd].reaped /\ cmds[stdcmd].state = "exited"
                               THEN cmds[stdcmd].code ELSE -1]
            /\ nCost' = nCost + 1
            /\ finalizedBy' = a
            /\ finalizedAt' = [proc |-> cmds[stdcmd].state, ctx |-> ctx]
            /\ mutex' = a
            /\ Goto(a, "fin2")
            /\ UNCHANGED panicked
    /\ UNCHANGED <<writers, timeout, isFinalized, chans, ctx, stdcmd, cmds, buffers, locals,
                   nCloseDone, nCloseStatus, groupKills>>

\* finalize(), second half: close both channels, set isFinalized, Unlock.
\* Closing a closed channel panics.
FinalizeNotify(a) ==
    /\ Running
    /\ pc[a] = "fin2"
    /\ mutex = a
    /\ nCloseDone' = nCloseDone + 1
    /\ IF doneClosed
       THEN /\ panicked' = "close of closed channel"
            /\ UNCHANGED <<doneClosed, statusClosed, nCloseStatus, isFinalized, mutex, pc>>
       ELSE /\ doneClosed' = TRUE
            /\ nCloseStatus' = nCloseStatus + 1
            /\ IF statusClosed
               THEN /\ panicked' = "close of closed channel"
                    /\ UNCHANGED <<statusClosed, isFinalized, mutex, pc>>
               ELSE /\ statusClosed' = TRUE
                    /\ isFinalized' = TRUE
                    /\ mutex' = NoAgent
                    /\ Goto(a, AfterFinalize(a))
                    /\ UNCHANGED panicked
    /\ UNCHANGED <<writers, timeout, Status, statusBuf, ctx, stdcmd, cmds, buffers, locals, nCost,
                   ghost>>

\* ------------------------------------------------------------ handleWait
\* handleTimeout() arms the timer when a timeout is configured; then
\* c.stdcmd.Wait() is called on the exec.Cmd the handle holds at that moment.
HwStart(i) ==
    /\ Running
    /\ pc[<<"hw", i>>] = "hw_start"
    /\ pc' = [pc EXCEPT ![<<"hw", i>>] = "hw_wait",
                        ![<<"tm", i>>] = IF timeout > 0 THEN "armed" ELSE @]
    /\ hwCmd' = [hwCmd EXCEPT ![i] = stdcmd]
    /\ UNCHANGED <<writers, timeout, Status, isFinalized, mutex, chans, ctx, stdcmd, cmds, buffers,
                   hwErr, waitRet, startRet, panicked, counts, ghost>>

\* The error exec.Cmd.Wait returns for cmd k once it can return.
WaitResult(k) ==
    IF ~cmds[k].started THEN ErrNotStarted
    ELSE IF cmds[k].reaped THEN ErrWaitAgain
    ELSE IF cmds[k].state = "killed" THEN ErrSignalKilled
    ELSE IF cmds[k].code = 0 THEN NoError
    ELSE ExitError(cmds[k].code)

\* c.stdcmd.Wait() returns: the process has ended (or there was none to wait
\* for); the first Wait to return sets ProcessState.
HwWait(i) ==
    LET k == hwCmd[i] IN
    /\ Running
    /\ pc[<<"hw", i>>] = "hw_wait"
    /\ ~cmds[k].started \/ cmds[k].reaped \/ cmds[k].state \in {"exited", "killed"}
    /\ hwErr' = [hwErr EXCEPT ![i] = WaitResult(k)]
    /\ cmds' = [cmds EXCEPT ![k].reaped = @ \/ cmds[k].started]
    /\ Goto(<<"hw", i>>, "hw_ctx1")
    /\ UNCHANGED <<writers, timeout, Status, isFinalized, mutex, chans, ctx, stdcmd, buffers,
                   hwCmd, waitRet, startRet, panicked, counts, ghost>>

\* A watcher that does not look at the deadline before recording the error.
HwIgnoresDeadline == FALSE

\* if c.ctx.Err() == context.DeadlineExceeded { return err }
HwReturnsOnDeadline == ctx = "deadline"

HwCtxDeadline(i) ==
    /\ Running
    /\ pc[<<"hw", i>>] = "hw_ctx1"
    /\ Goto(<<"hw", i>>, IF HwReturnsOnDeadline THEN "hw_defer" ELSE "hw_ctx2")
    /\ UNCHANGED <<writers, timeout, Status, isFinalized, mutex, chans, ctx, stdcmd, cmds, buffers,
                   locals, panicked, counts, ghost>>

\* if c.ctx.Err() == context.Canceled { return err }
HwReturnsOnCanceled == ctx = "canceled"

HwCtxCanceled(i) ==
    /\ Running
    /\ pc[<<"hw", i>>] = "hw_ctx2"
    /\ Goto(<<"hw", i>>, IF HwReturnsOnCanceled THEN "hw_defer" ELSE "hw_set")
    /\ UNCHANGED <<writers, timeout, Status, isFinalized, mutex, chans, ctx, stdcmd, cmds, buffers,
                   locals, panicked, counts, ghost>>

\* The result of the process is recorded: the mapped error when Wait failed,
\* the three output snapshots when it succeeded.
HwRecord(i) ==
    /\ Running
    /\ pc[<<"hw", i>>] = "hw_set"
    /\ Status' = IF hwErr[i] # NoError
                 THEN [Status EXCEPT !.Error = formatExitCode(hwErr[i])]
                 ELSE [Status EXCEPT !.Stdout = stdout, !.Stderr = stderr,
                                     !.Output = output]
    /\ Goto(<<"hw", i>>, "hw_defer")
    /\ UNCHANGED <<writers, timeout, isFinalized, mutex, chans, ctx, stdcmd, cmds, buffers, locals,
                   panicked, counts, ghost>>

\* The deferred function: if c.Status.Finish { return }
HwDeferCheck(i) ==
    /\ Running
    /\ pc[<<"hw", i>>] = "hw_defer"
    /\ Goto(<<"hw", i>>, IF Status.Finish THEN "done" ELSE "hw_send")
    /\ UNCHANGED <<writers, timeout, Status, isFinalized, mutex, chans, ctx, stdcmd, cmds, buffers,
                   locals, panicked, counts, ghost>>

\* The deferred function: c.statusChan <- c.Status, then c.finalize().  The
\* send panics on a closed channel and blocks while the buffer (capacity 1)
\* is full.
HwSend(i) ==
    /\ Running
    /\ pc[<<"hw", i>>] = "hw_send"
    /\ IF statusClosed
       THEN /\ panicked' = "send on closed channel"
            /\ UNCHANGED <<statusBuf, pc>>
       ELSE /\ Len(statusBuf) < 1
            /\ statusBuf' = Append(statusBuf, Status)
            /\ Goto(<<"hw", i>>, "fin1")
            /\ UNCHANGED panicked
    /\ UNCHANGED <<writers, timeout, Status, isFinalized, mutex, doneClosed, statusClosed, ctx,
                   stdcmd, cmds, buffers, locals, counts, ghost>>

\* ------------------------------------------------------ timeout callback
\* time.AfterFunc runs the callback once the timeout has elapsed.
TimerFire(i) ==
    /\ Running
    /\ pc[<<"tm", i>>] = "armed"
    /\ Goto(<<"tm", i>>, "tc_select")
    /\ UNCHANGED <<writers, timeout, Status, isFinalized, mutex, chans, ctx, stdcmd, cmds, buffers,
                   locals, panicked, counts, ghost>>

\* select { case <-c.doneChan: ; case <-c.ctx.Done(): ... }: any ready case
\* may be taken.
TimerSelect(i) ==
    /\ Running
    /\ pc[<<"tm", i>>] = "tc_select"
    /\ \/ doneClosed /\ Goto(<<"tm", i>>, "done")
       \/ ctx \in {"canceled", "deadline"} /\ Goto(<<"tm", i>>, "tc_err1")
    /\ UNCHANGED <<writers, timeout, Status, isFinalized, mutex, chans, ctx, stdcmd, cmds, buffers,
                   locals, panicked, counts, ghost>>

\* if c.ctx.Err() == context.Canceled { c.Status.Error = ErrProcessCancel }
TimerErrCancel(i) ==
    /\ Running
    /\ pc[<<"tm", i>>] = "tc_err1"
    /\ Status' = IF ctx = "canceled"
                 THEN [Status EXCEPT !.Error = ErrProcessCancel] ELSE Status
    /\ Goto(<<"tm", i>>, "tc_err2")
    /\ UNCHANGED <<writers, timeout, isFinalized, mutex, chans, ctx, stdcmd, cmds, buffers, locals,
                   panicked, counts, ghost>>

\* if c.ctx.Err() == context.DeadlineExceeded { c.Status.Error = ErrProcessTimeout }
\* and then c.Stop() is called.
TimerErrTimeout(i) ==
    /\ Running
    /\ pc[<<"tm", i>>] = "tc_err2"
    /\ Status' = IF ctx = "deadline"
                 THEN [Status EXCEPT !.Error = ErrProcessTimeout] ELSE Status
    /\ Goto(<<"tm", i>>, "st_check")
    /\ UNCHANGED <<writers, timeout, isFinalized, mutex, chans, ctx, stdcmd, cmds, buffers, locals,
                   panicked, counts, ghost>>

\* ------------------------------------------------------------------ Stop
\* if c.stdcmd == nil || c.stdcmd.Process == nil { return }
StopCheck(a) ==
    /\ Goto(a, IF stdcmd = 0 \/ ~cmds[stdcmd].started THEN "done" ELSE "st_cancel")
    /\ UNCHANGED <<writers, timeout, Status, isFinalized, mutex, chans, ctx, stdcmd, cmds, buffers,
                   locals, panicked, counts, ghost>>

\* A thread calls Stop().
Stop(j) ==
    /\ Running
    /\ pc[<<"st", j>>] = "idle"
    /\ StopCheck(<<"st", j>>)

\* The timeout callback enters Stop().
TimerStop(i) ==
    /\ Running
    /\ pc[<<"tm", i>>] = "st_check"
    /\ StopCheck(<<"tm", i>>)

\* c.cancel(): cancels the current context unless it is already done; then
\* c.finalize() is called.
StopCancel(a) ==
    /\ Running
    /\ pc[a] = "st_cancel"
    /\ ctx' = IF ctx = "active" THEN "canceled" ELSE ctx
    /\ Goto(a, "fin1")
    /\ UNCHANGED <<writers, timeout, Status, isFinalized, mutex, chans, stdcmd, cmds, buffers,
                   locals, panicked, counts, ghost>>

\* c.stdcmd.Process.Kill(); syscall.Kill(-c.stdcmd.Process.Pid, SIGKILL).
\* A running process dies; the group signal is sent whatever its state.
StopKill(a) ==
    /\ Running
    /\ pc[a] = "st_kill"
    /\ IF ~cmds[stdcmd].started
       THEN /\ panicked' = "nil pointer dereference"
            /\ UNCHANGED <<cmds, groupKills, pc>>
       ELSE /\ cmds' = [cmds EXCEPT ![stdcmd].state =
                            IF @ = "running" THEN "killed" ELSE @]
            /\ groupKills' = groupKills \cup {<<stdcmd, cmds[stdcmd].state>>}
            /\ Goto(a, "done")
            /\ UNCHANGED panicked
    /\ UNCHANGED <<writers, timeout, Status, isFinalized, mutex, chans, ctx, stdcmd, buffers,
                   locals, counts, finalizedBy, finalizedAt>>

\* Kill(sig): syscall.Kill(c.stdcmd.Process.Pid, sig), with no check that a
\* process exists.  Shown is a signal that ends a running process; a signal the
\* process ignores, or one sent to a process that has ended, changes nothing.
Kill ==
    /\ Running
    /\ IF stdcmd = 0 \/ ~cmds[stdcmd].started
       THEN /\ panicked' = "nil pointer dereference"
            /\ UNCHANGED cmds
       ELSE /\ cmds[stdcmd].state = "running"
            /\ cmds' = [cmds EXCEPT ![stdcmd].state = "killed"]
            /\ UNCHANGED panicked
    /\ UNCHANGED <<writers, timeout, Status, isFinalized, mutex, chans, ctx, stdcmd, buffers, pc,
                   locals, counts, ghost>>

\* ------------------------------------------------------------------ Wait
\* Every waiting thread is at <-c.doneChan from the start: doneChan exists as
\* soon as NewCommand returns, and a later call of Wait is a parked thread
\* that has not been scheduled yet.
\* <-c.doneChan returns once the channel is closed (nothing is ever sent).
WaitRecv(j) ==
    /\ Running
    /\ pc[<<"w", j>>] = "w_recv"
    /\ doneClosed
    /\ Goto(<<"w", j>>, "w_ret")
    /\ UNCHANGED <<writers, timeout, Status, isFinalized, mutex, chans, ctx, stdcmd, cmds, buffers,
                   locals, panicked, counts, ghost>>

\* return c.Status.Error
WaitReturn(j) ==
    /\ Running
    /\ pc[<<"w", j>>] = "w_ret"
    /\ waitRet' = [waitRet EXCEPT ![j] = Status.Error]
    /\ Goto(<<"w", j>>, "done")
    /\ UNCHANGED <<writers, timeout, Status, isFinalized, mutex, chans, ctx, stdcmd, cmds, buffers,
                   hwCmd, hwErr, startRet, panicked, counts, ghost>>

\* ---------------------------------------------------------- OutputStream
\* bytes.IndexByte(s, c): offset from 0 of the first c in s, -1 without one.
IndexByte(s, c) ==
    IF \E i \in 1..Len(s) : s[i] = c
    THEN (CHOOSE i \in 1..Len(s) : s[i] = c /\ \A h \in 1..(i - 1) : s[h] # c) - 1
    ELSE -1

\* The Go slice s[from:to], offsets from 0.
Slice(s, from, to) == SubSeq(s, from + 1, to)

\* The non-empty byte chunks a caller may hand to Write within a budget.
Chunks(budget) == UNION {[1..n -> Bytes] : n \in 1..budget}

\* All bytes handed to the stream so far.
RECURSIVE Flatten(_)
Flatten(ss) == IF ss = <<>> THEN <<>> ELSE Head(ss) \o Flatten(Tail(ss))

\* A Write that forgets the carry-over when it sends a line.
CarryOverDropped == <<>>

\* if rw.lastChar > 0 { line = string(rw.buf[0:rw.lastChar]) }
CarryOver == IF lastChar > 0 THEN Slice(buf, 0, lastChar) ELSE <<>>

\* if newlineOffset > 0 && p[newlineOffset-1] == '\r': p is indexed with the
\* offset counted from firstChar, not with firstChar + newlineOffset - 1.
EndsWithCR(p, newlineOffset) == newlineOffset > 0 /\ p[(newlineOffset - 1) + 1] = "\r"

\* A Write that accepts a partial line of any length.
NeverOverflows(remain, bufFree) == FALSE

\* if remain > bufFree
Overflows(remain, bufFree) == remain > bufFree

\* SetLineBufferSize(n), called before the stream is first written to.
SetLineBufferSize(n) ==
    /\ chunks = <<>>
    /\ bufSize # n
    /\ bufSize' = n
    /\ UNCHANGED <<streamChan, buf, lastChar, wpc, wP, wFirst, retN, retErr, chunks,
                   pushed, overflowed>>
    /\ UNCHANGED <<handle, copiers, chanrun, outbuf>>

\* Write(p) is called: n = len(p); firstChar := 0.
StreamWrite(p) ==
    /\ wpc = "idle"
    /\ Len(Flatten(chunks)) + Len(p) <= MaxBytes
    /\ wpc' = "loop"
    /\ wP' = p
    /\ wFirst' = 0
    /\ retN' = Len(p)
    /\ retErr' = NoError
    /\ chunks' = Append(chunks, p)
    /\ UNCHANGED <<streamChan, bufSize, buf, lastChar, pushed, overflowed>>
    /\ UNCHANGED <<handle, copiers, chanrun, outbuf>>

\* One round of the loop of Write: the next newline is found, the line before
\* it (without the byte taken for its CR, with the carry-over in front) is
\* sent on streamChan; the send blocks while the channel is full.
StreamPush ==
    LET newlineOffset == IndexByte(Slice(wP, wFirst, Len(wP)), "\n")
        end == wFirst + newlineOffset - (IF EndsWithCR(wP, newlineOffset) THEN 1 ELSE 0)
        line == CarryOver \o Slice(wP, wFirst, end)
    IN  /\ wpc = "loop"
        /\ newlineOffset >= 0
        /\ Len(streamChan) < MaxQueue
        /\ streamChan' = Append(streamChan, line)
        /\ pushed' = Append(pushed, line)
        /\ lastChar' = 0
        /\ buf' = <<>>
        /\ wFirst' = wFirst + newlineOffset + 1
        /\ UNCHANGED <<bufSize, wpc, wP, retN, retErr, chunks, overflowed>>
        /\ UNCHANGED <<handle, copiers, chanrun, outbuf>>

\* After the loop: the bytes behind the last newline are copied behind the
\* carry-over, or Write returns ErrLineBufferOverflow with n = firstChar when
\* they do not fit; then Write returns.
StreamStore ==
    LET remain == Len(wP) - wFirst
        bufFree == bufSize - lastChar
    IN  /\ wpc = "loop"
        /\ IndexByte(Slice(wP, wFirst, Len(wP)), "\n") < 0
        /\ IF wFirst < Len(wP) /\ Overflows(remain, bufFree)
           THEN /\ retErr' = ErrLineBufferOverflow
                /\ retN' = wFirst
                /\ overflowed' = TRUE
                /\ UNCHANGED <<buf, lastChar>>
           ELSE /\ buf' = buf \o Slice(wP, wFirst, Len(wP))
                /\ lastChar' = lastChar + remain
                /\ UNCHANGED <<retErr, retN, overflowed>>
        /\ wpc' = "idle"
        /\ UNCHANGED <<streamChan, bufSize, wP, wFirst, chunks, pushed>>
        /\ UNCHANGED <<handle, copiers, chanrun, outbuf>>

\* The consumer of Lines() receives a line from the channel.
StreamRecv ==
    /\ streamChan # <<>>
    /\ streamChan' = Tail(streamChan)
    /\ UNCHANGED <<bufSize, buf, lastChar, wpc, wP, wFirst, retN, retErr, chunks, pushed,
                   overflowed>>
    /\ UNCHANGED <<handle, copiers, chanrun, outbuf>>

\* ---------------------------------------------------------- OutputBuffer
\* The lines of s that end in a newline, without the newline.
RECURSIVE TerminatedLines(_)
TerminatedLines(s) ==
    LET i == IndexByte(s, "\n") IN
    IF i < 0 THEN <<>>
    ELSE <<Slice(s, 0, i)>> \o TerminatedLines(Slice(s, i + 1, Len(s)))

\* What follows the last newline of s.
RECURSIVE Unterminated(_)
Unterminated(s) ==
    LET i == IndexByte(s, "\n") IN
    IF i < 0 THEN s ELSE Unterminated(Slice(s, i + 1, Len(s)))

\* dropCR of bufio: a line without its one trailing CR.
DropCR(l) == IF Len(l) > 0 /\ l[Len(l)] = "\r" THEN Slice(l, 0, Len(l) - 1) ELSE l

\* The tokens bufio.Scanner yields with ScanLines on the bytes b up to EOF:
\* every terminated line, then the unterminated rest if it is not empty, each
\* without its trailing CR.
ScanLines(b) ==
    LET ls == TerminatedLines(b)
        rest == Unterminated(b)
    IN  [i \in 1..Len(ls) |-> DropCR(ls[i])]
          \o (IF rest # <<>> THEN <<DropCR(rest)>> ELSE <<>>)

\* A reader that leaves what it read in the buffer.
ReadKeeps(b) == b

\* The scanner reads rw.buf to EOF; reading a bytes.Buffer consumes it.
ReadDrains(b) == <<>>

\* OutputBuffer.Write(p): under the lock, append p to rw.buf.
BufferWrite(p) ==
    /\ Len(obWritten) + Len(p) <= MaxBytes
    /\ obBuf' = obBuf \o p
    /\ obWritten' = obWritten \o p
    /\ obDirty' = TRUE
    /\ UNCHANGED <<obLines, obRet, obPrev, obQuiet, nLines, obRead, bwriters>>
    /\ UNCHANGED <<handle, copiers, chanrun, ostream>>

\* A mutex that excludes nobody.
BufferNeverLocked == FALSE

\* rw.Lock() has to wait: a writer thread holds the mutex.
BufferLocked == obMutex # 0

\* OutputBuffer.Lines(): under the lock, scan rw.buf and append every token to
\* rw.lines; return rw.lines.
BufferLines ==
    /\ nLines < MaxLines
    /\ ~BufferLocked
    /\ obLines' = obLines \o ScanLines(obBuf)
    /\ obRead' = obRead \o obBuf
    /\ obBuf' = ReadDrains(obBuf)
    /\ obRet' = obLines'
    /\ obPrev' = obRet
    /\ obQuiet' = ~obDirty
    /\ obDirty' = FALSE
    /\ nLines' = nLines + 1
    /\ UNCHANGED <<obWritten, bwriters>>
    /\ UNCHANGED <<handle, copiers, chanrun, ostream>>

\* ----------------------------------------- OutputBuffer.Write, thread by thread
\* The bytes all writer threads have been called with.
RECURSIVE CalledWith(_)
CalledWith(i) == IF i = 0 THEN 0 ELSE Len(bwP[i]) + CalledWith(i - 1)

\* Thread i calls Write(p); the threads are numbered in the order of their
\* calls.
BwCall(i, p) ==
    /\ bwPc[i] = "idle"
    /\ \A h \in 1..(i - 1) : bwPc[h] # "idle"
    /\ CalledWith(MaxWriters) + Len(p) <= MaxBytes
    /\ bwP' = [bwP EXCEPT ![i] = p]
    /\ bwPc' = [bwPc EXCEPT ![i] = "lock"]
    /\ UNCHANGED <<obBuf, obLines, obWritten, obRet, obPrev, obDirty, obQuiet, nLines,
                   obRead, obMutex, bwM, bwRet>>
    /\ UNCHANGED <<handle, copiers, chanrun, ostream>>

\* rw.Lock()
BwLock(i) ==
    /\ bwPc[i] = "lock"
    /\ ~BufferLocked
    /\ obMutex' = i
    /\ bwPc' = [bwPc EXCEPT ![i] = "grow"]
    /\ UNCHANGED <<obBuf, obLines, obWritten, obRet, obPrev, obDirty, obQuiet, nLines,
                   obRead, bwP, bwM, bwRet>>
    /\ UNCHANGED <<handle, copiers, chanrun, ostream>>

\* rw.buf.Write(p), first half: bytes.Buffer takes m, the length of its
\* contents, as the offset the new bytes go to.
BwGrow(i) ==
    /\ bwPc[i] = "grow"
    /\ bwM' = [bwM EXCEPT ![i] = Len(obBuf)]
    /\ bwPc' = [bwPc EXCEPT ![i] = "copy"]
    /\ UNCHANGED <<obBuf, obLines, obWritten, obRet, obPrev, obDirty, obQuiet, nLines,
                   obRead, obMutex, bwP, bwRet>>
    /\ UNCHANGED <<handle, copiers, chanrun, ostream>>

\* rw.buf.Write(p), second half: the contents are resliced to m + len(p) and p
\* is copied to offset m; n is the number of bytes copied.
BwCopy(i) ==
    LET m == IF bwM[i] <= Len(obBuf) THEN bwM[i] ELSE Len(obBuf) IN
    /\ bwPc[i] = "copy"
    /\ obBuf' = SubSeq(obBuf, 1, m) \o bwP[i]
    /\ obWritten' = obWritten \o bwP[i]
    /\ obDirty' = TRUE
    /\ bwRet' = [bwRet EXCEPT ![i] = Len(bwP[i])]
    /\ bwPc' = [bwPc EXCEPT ![i] = "unlock"]
    /\ UNCHANGED <<obLines, obRet, obPrev, obQuiet, nLines, obRead, obMutex, bwP, bwM>>
    /\ UNCHANGED <<handle, copiers, chanrun, ostream>>

\* rw.Unlock(); return
BwUnlock(i) ==
    /\ bwPc[i] = "unlock"
    /\ obMutex' = 0
    /\ bwPc' = [bwPc EXCEPT ![i] = "done"]
    /\ UNCHANGED <<obBuf, obLines, obWritten, obRet, obPrev, obDirty, obQuiet, nLines,
                   obRead, bwP, bwM, bwRet>>
    /\ UNCHANGED <<handle, copiers, chanrun, ostream>>

\* ------------------------------------------- the copiers of exec.Cmd
\* The process writes a chunk to its stdout or its stderr pipe.
PipeWrite(s) ==
    /\ cpSent[s] < MaxCopies
    /\ cpSent' = [cpSent EXCEPT ![s] = @ + 1]
    /\ cpPipe' = [cpPipe EXCEPT ![s] = @ + 1]
    /\ UNCHANGED <<cpPc, cpM>>
    /\ UNCHANGED <<handle, ostream, outbuf, chanrun>>

\* io.Copy of the copier of stream s reads a chunk from its pipe and calls
\* Write on its MultiWriter, which writes to &c.output first.
CopierRead(s) ==
    /\ cpPc[s] = "read"
    /\ cpPipe[s] > 0
    /\ cpPipe' = [cpPipe EXCEPT ![s] = @ - 1]
    /\ cpPc' = [cpPc EXCEPT ![s] = "grow"]
    /\ UNCHANGED <<cpSent, cpM>>
    /\ UNCHANGED <<handle, ostream, outbuf, chanrun>>

\* c.output.Write, first half: bytes.Buffer takes m, the length of its
\* contents, as the offset of the new chunk.  No lock is held.
CopierGrow(s) ==
    /\ cpPc[s] = "grow"
    /\ cpM' = [cpM EXCEPT ![s] = Len(output)]
    /\ cpPc' = [cpPc EXCEPT ![s] = "copy"]
    /\ UNCHANGED <<cpPipe, cpSent>>
    /\ UNCHANGED <<handle, ostream, outbuf, chanrun>>

\* The contents of a buffer b after a chunk was copied to offset m: what was at
\* that offset is overwritten.
CopyAt(b, m, chunk) ==
    [n \in 1..(IF Len(b) > m + 1 THEN Len(b) ELSE m + 1) |->
        IF n = m + 1 THEN chunk ELSE b[n]]

\* c.output.Write, second half: the contents are resliced to m + len(p) and the
\* chunk is copied to offset m.
CopierCopy(s) ==
    /\ cpPc[s] = "copy"
    /\ cpM[s] <= Len(output)
    /\ output' = CopyAt(output, cpM[s], s)
    /\ cpPc' = [cpPc EXCEPT ![s] = "own"]
    /\ UNCHANGED <<timeout, Status, isFinalized, mutex, chans, ctx, stdcmd, cmds, stdout,
                   stderr, pc, locals, panicked, counts, ghost>>
    /\ UNCHANGED <<cpPipe, cpSent, cpM>>
    /\ UNCHANGED <<ostream, outbuf, chanrun>>

\* The MultiWriter then writes the chunk to the stream's own buffer, &c.stdout
\* or &c.stderr, which no other goroutine writes.
CopierOwn(s) ==
    /\ cpPc[s] = "own"
    /\ stdout' = IF s = "out" THEN Append(stdout, s) ELSE stdout
    /\ stderr' = IF s = "err" THEN Append(stderr, s) ELSE stderr
    /\ cpPc' = [cpPc EXCEPT ![s] = "read"]
    /\ UNCHANGED <<timeout, Status, isFinalized, mutex, chans, ctx, stdcmd, cmds, output,
                   pc, locals, panicked, counts, ghost>>
    /\ UNCHANGED <<cpPipe, cpSent, cpM>>
    /\ UNCHANGED <<ostream, outbuf, chanrun>>

\* ------------------------------------------------------ CommandWithChan
\* The process writes its next line to one of its two streams; a line is
\* named by its stream and its number on that stream.
ChanProcWrite(s) ==
    LET line == <<s, 1 + Cardinality({l \in cwWritten : l[1] = s})>> IN
    /\ cwPanic = "none"
    /\ cwProc = "running"
    /\ Cardinality(cwWritten) < MaxChanLines
    /\ cwPipe' = [cwPipe EXCEPT ![s] = Append(@, line)]
    /\ cwWritten' = cwWritten \cup {line}
    /\ UNCHANGED <<cwProc, cwPipeClosed, cwPc, cwLine, cwMain, queue, queueClosed,
                   cwQueued, cwPanic>>
    /\ UNCHANGED <<handle, copiers, ostream, outbuf>>

\* The process exits; the write ends of its pipes are closed with it.
ChanProcExit ==
    /\ cwPanic = "none"
    /\ cwProc = "running"
    /\ cwProc' = "exited"
    /\ UNCHANGED <<cwPipe, cwPipeClosed, cwPc, cwLine, cwMain, queue, queueClosed,
                   cwWritten, cwQueued, cwPanic>>
    /\ UNCHANGED <<handle, copiers, ostream, outbuf>>

\* call(in): line, _, err := reader.ReadLine(); if err != nil { break }.
\* ReadLine fails when the read end was closed under it and at EOF (the pipe is
\* empty and the process has exited); it blocks on an empty pipe of a running
\* process.
CallRead(s) ==
    /\ cwPanic = "none"
    /\ cwPc[s] = "read"
    /\ IF cwPipeClosed[s] \/ (cwPipe[s] = <<>> /\ cwProc = "exited")
       THEN /\ cwPc' = [cwPc EXCEPT ![s] = "done"]
            /\ UNCHANGED <<cwPipe, cwLine>>
       ELSE /\ cwPipe[s] # <<>>
            /\ cwLine' = [cwLine EXCEPT ![s] = Head(cwPipe[s])]
            /\ cwPipe' = [cwPipe EXCEPT ![s] = Tail(@)]
            /\ cwPc' = [cwPc EXCEPT ![s] = "send"]
    /\ UNCHANGED <<cwProc, cwPipeClosed, cwMain, queue, queueClosed, cwWritten,
                   cwQueued, cwPanic>>
    /\ UNCHANGED <<handle, copiers, ostream, outbuf>>

\* select { case queue <- string(line): ; default: }: with a full queue the
\* default case is taken.
SendSkips == Len(queue) >= MaxQueue

\* call(in): the select.  A send on a closed channel panics; with a full queue
\* the line is given up.
CallSend(s) ==
    /\ cwPanic = "none"
    /\ cwPc[s] = "send"
    /\ IF queueClosed
       THEN /\ cwPanic' = "send on closed channel"
            /\ UNCHANGED <<queue, cwQueued, cwPc>>
       ELSE IF SendSkips
       THEN /\ cwPc' = [cwPc EXCEPT ![s] = "read"]
            /\ UNCHANGED <<queue, cwQueued, cwPanic>>
       ELSE /\ Len(queue) < MaxQueue
            /\ queue' = Append(queue, cwLine[s])
            /\ cwQueued' = cwQueued \cup {cwLine[s]}
            /\ cwPc' = [cwPc EXCEPT ![s] = "read"]
            /\ UNCHANGED cwPanic
    /\ UNCHANGED <<cwProc, cwPipe, cwPipeClosed, cwLine, cwMain, queueClosed, cwWritten>>
    /\ UNCHANGED <<handle, copiers, ostream, outbuf>>

\* runner.Wait() returns: the process has exited, and Wait has closed the read
\* ends of StdoutPipe and StderrPipe.
RunnerWait ==
    /\ cwPanic = "none"
    /\ cwMain = "wait"
    /\ cwProc = "exited"
    /\ cwPipeClosed' = [s \in Pipes |-> TRUE]
    /\ cwMain' = "close"
    /\ UNCHANGED <<cwProc, cwPipe, cwPc, cwLine, queue, queueClosed, cwWritten, cwQueued,
                   cwPanic>>
    /\ UNCHANGED <<handle, copiers, ostream, outbuf>>

\* close(queue); return nil
CloseQueue ==
    /\ cwPanic = "none"
    /\ cwMain = "close"
    /\ queueClosed' = TRUE
    /\ cwMain' = "done"
    /\ UNCHANGED <<cwProc, cwPipe, cwPipeClosed, cwPc, cwLine, queue, cwWritten, cwQueued,
                   cwPanic>>
    /\ UNCHANGED <<handle, copiers, ostream, outbuf>>

\* The caller's consumer receives a line from queue.
QueueRecv ==
    /\ cwPanic = "none"
    /\ queue # <<>>
    /\ queue' = Tail(queue)
    /\ UNCHANGED <<cwProc, cwPipe, cwPipeClosed, cwPc, cwLine, cwMain, queueClosed,
                   cwWritten, cwQueued, cwPanic>>
    /\ UNCHANGED <<handle, copiers, ostream, outbuf>>

\* ---------------------------------------------------------- specifications
\* The steps of the goroutines the handle runs.
HwStep(i) ==
    \/ HwStart(i) \/ HwWait(i) \/ HwCtxDeadline(i) \/ HwCtxCanceled(i)
    \/ HwRecord(i) \/ HwDeferCheck(i) \/ HwSend(i)

TimerStep(i) ==
    \/ TimerFire(i) \/ TimerSelect(i) \/ TimerErrCancel(i)
    \/ TimerErrTimeout(i) \/ TimerStop(i)

StopStep(a) == StopCancel(a) \/ StopKill(a)

FinalizeStep(a) == FinalizeEnter(a) \/ FinalizeNotify(a)

WaitStep(j) == WaitRecv(j) \/ WaitReturn(j)

\* A handle on which Start is called once, with any number of concurrent
\* Stop and Wait calls.
Next ==
    \/ StartOnce
    \/ \E k \in 1..Len(cmds) : \E s \in {"out", "err"} : ProcWrite(k, s)
    \/ \E k \in 1..Len(cmds) : \E c \in ExitCodes : ProcExit(k, c)
    \/ CtxDeadline
    \/ \E i \in 1..MaxStarts : HwStep(i) \/ TimerStep(i)
    \/ \E j \in 1..MaxStops : Stop(j)
    \/ \E a \in HW \cup TM \cup ST : FinalizeStep(a) \/ StopStep(a)
    \/ \E j \in 1..MaxWaiters : WaitStep(j)

Spec == Init /\ [][Next]_vars

\* The Go scheduler runs every runnable goroutine, and time passes: every
\* step of a goroutine that stays possible is eventually taken, every armed
\* timer and deadline eventually expires.  Calls of the API and the natural
\* end of the process are the environment's and need not happen.
Fairness ==
    /\ \A i \in 1..MaxStarts : WF_vars(HwStep(i)) /\ WF_vars(TimerStep(i))
    /\ \A a \in HW \cup TM \cup ST : WF_vars(FinalizeStep(a)) /\ WF_vars(StopStep(a))
    /\ \A j \in 1..MaxWaiters : WF_vars(WaitStep(j))
    /\ WF_vars(CtxDeadline)

FairSpec == Spec /\ Fairness

\* A handle on which Start is called repeatedly, without timeout, Stop or
\* Wait: the watchers of the spawned processes and their finalize.
InitRestart == Init /\ timeout = 0

NextRestart ==
    \/ Start
    \/ \E k \in 1..Len(cmds) : \E c \in ExitCodes : ProcExit(k, c)
    \/ \E i \in 1..MaxStarts : HwStep(i)
    \/ \E a \in HW : FinalizeStep(a)

SpecRestart == InitRestart /\ [][NextRestart]_vars

\* A handle without timeout on which Start and Wait are called and Stop is
\* not: the process ends on its own with any exit status.
InitExit == Init /\ timeout = 0

NextExit ==
    \/ StartOnce
    \/ \E k \in 1..Len(cmds) : \E c \in 0..MaxExitCode : ProcExit(k, c)
    \/ \E i \in 1..MaxStarts : HwStep(i)
    \/ \E a \in HW : FinalizeStep(a)
    \/ \E j \in 1..MaxWaiters : WaitStep(j)

SpecExit == InitExit /\ [][NextExit]_vars

\* A handle without timeout whose owner calls Start, Stop and Kill one after
\* the other, in any order and any number of times, while other threads wait
\* in Wait and the watchers run.
InitCalls == Init /\ timeout = 0

\* The owner is between two calls: every Stop it made has returned.
OwnerFree == \A a \in ST : pc[a] \in {"idle", "done"}

\* The owner's j-th call of Stop.
NextStop(j) ==
    /\ OwnerFree
    /\ \A h \in 1..(j - 1) : pc[<<"st", h>>] = "done"
    /\ Stop(j)

\* The owner calls Start; a Start that spawns is made while fewer than MaxLive
\* watchers of earlier runs are still in flight.
NextStart ==
    /\ OwnerFree
    /\ StartRefuses \/ Cardinality({a \in HW : pc[a] \notin {"idle", "done"}}) < MaxLive
    /\ Start

NextCalls ==
    \/ NextStart
    \/ \E j \in 1..MaxStops : NextStop(j)
    \/ OwnerFree /\ Kill
    \/ \E k \in 1..Len(cmds) : ProcExit(k, 0)
    \/ \E i \in 1..MaxStarts : HwStep(i)
    \/ \E a \in HW \cup ST : FinalizeStep(a) \/ StopStep(a)
    \/ \E j \in 1..MaxWaiters : WaitStep(j)

SpecCalls == InitCalls /\ [][NextCalls]_vars

\* The writers alone: the handle beside them is never started.
InitWriters == Init /\ timeout = 0

\* An output stream whose line buffer size is set, if at all, before its first
\* Write, with one writer and one consumer of its channel.
NextStream ==
    \/ \E n \in 1..MaxCap : SetLineBufferSize(n)
    \/ \E p \in Chunks(MaxBytes - Len(Flatten(chunks))) : StreamWrite(p)
    \/ StreamPush
    \/ StreamStore
    \/ StreamRecv

SpecStream == InitWriters /\ [][NextStream]_vars

\* An output buffer with Write and Lines calls in any order.
NextBuffer ==
    \/ \E p \in Chunks(MaxBytes - Len(obWritten)) : BufferWrite(p)
    \/ BufferLines

SpecBuffer == InitWriters /\ [][NextBuffer]_vars

\* An output buffer written by several threads at once while another thread
\* calls Lines.
NextWriters ==
    \/ \E i \in 1..MaxWriters :
          \E p \in Chunks(MaxBytes - CalledWith(MaxWriters)) : BwCall(i, p)
    \/ \E i \in 1..MaxWriters : BwLock(i) \/ BwGrow(i) \/ BwCopy(i) \/ BwUnlock(i)
    \/ BufferLines

SpecWriters == InitWriters /\ [][NextWriters]_vars

\* The two copier goroutines of a running process, chunk by chunk.
NextCopiers ==
    \E s \in Streams :
        \/ PipeWrite(s)
        \/ CopierRead(s)
        \/ CopierGrow(s)
        \/ CopierCopy(s)
        \/ CopierOwn(s)

SpecCopiers == InitWriters /\ [][NextCopiers]_vars

\* CommandWithChan with its process, its two readers and a consumer of the
\* queue.
NextChan ==
    \/ \E s \in Pipes : ChanProcWrite(s)
    \/ ChanProcExit
    \/ \E s \in Pipes : CallRead(s) \/ CallSend(s)
    \/ RunnerWait
    \/ CloseQueue
    \/ QueueRecv

SpecChan == InitWriters /\ [][NextChan]_vars

\* ------------------------------------------------------------------ claims
\* C1: under every interleaving of natural exit, timeout callback and Stop
\* calls, the body of finalize takes effect at most once: doneChan and
\* statusChan are each closed at most once and CostTime is computed at most
\* once.
C1_FinalizeOnce ==
    /\ nCloseDone <= 1
    /\ nCloseStatus <= 1
    /\ nCost <= 1

\* Two Stop paths (an explicit Stop and the timeout callback) have both
\* returned from finalize, and the body ran once.
C1_Witness ==
    /\ nCost = 1
    /\ isFinalized
    /\ \E j \in 1..MaxStops : pc[<<"st", j>>] = "st_kill"
    /\ \E i \in 1..MaxStarts : pc[<<"tm", i>>] = "st_kill"

\* C2: no interleaving of Stop or the timeout callback with the deferred
\* completion step of handleWait sends on a closed channel or closes a
\* channel twice.
C2_NoChannelPanic ==
    panicked \notin {"send on closed channel", "close of closed channel"}

\* C3: after a Start the OS rejected, the error is returned and recorded in
\* Status.Error, the handle is Finalized and the completion signal has fired.
C3_SpawnFailureFinalizes ==
    (startRet # <<>> /\ startRet[1] = ErrSpawn) =>
        /\ Status.Error = ErrSpawn
        /\ Status.Finish
        /\ doneClosed

\* C4: at most one OS process is ever spawned from one handle.
C4_AtMostOneProcess ==
    Cardinality({k \in 1..Len(cmds) : cmds[k].started}) <= 1

\* An explicit Stop executed the body of finalize on a running process before
\* any deadline.
StopWonWhileRunning ==
    /\ finalizedBy \in ST
    /\ finalizedAt.proc = "running"
    /\ finalizedAt.ctx # "deadline"

\* C5: when an explicit Stop won the finalize race while the process was
\* running and the deadline had not passed, Status.Error once the handle is
\* finalized, and the value every Wait returns, is ErrProcessCancel.
C5_StopYieldsCancel ==
    StopWonWhileRunning =>
        /\ isFinalized => Status.Error = ErrProcessCancel
        /\ \A j \in 1..MaxWaiters :
              pc[<<"w", j>>] = "done" => waitRet[j] = ErrProcessCancel

\* A timeout is configured, Stop was never called, no process ended on its own.
TimeoutCase ==
    /\ timeout > 0
    /\ \A j \in 1..MaxStops : pc[<<"st", j>>] = "idle"
    /\ \A k \in 1..Len(cmds) : cmds[k].state # "exited"

\* C6: with a timeout configured, no Stop call and a process that does not
\* end on its own, the timeout callback is the one that finalizes, the
\* recorded error is ErrProcessTimeout from finalize on (the watcher does not
\* overwrite it with the error of the kill), every Wait returns
\* ErrProcessTimeout, and the process is killed when the callback is over.
C6_TimeoutWins ==
    TimeoutCase =>
        /\ Status.Finish =>
              /\ finalizedBy \in TM
              /\ Status.Error = ErrProcessTimeout
        /\ \A j \in 1..MaxWaiters :
              pc[<<"w", j>>] = "done" => waitRet[j] = ErrProcessTimeout
        /\ \A i \in 1..MaxStarts :
              pc[<<"tm", i>>] = "done" =>
                  /\ Status.Finish
                  /\ cmds[stdcmd].state = "killed"
                  /\ <<stdcmd, "running">> \in groupKills

\* The timeout fired on a long-running process, the watcher has gone through
\* its return path after the kill and a Wait has returned.
C6_Witness ==
    /\ TimeoutCase
    /\ \E i \in 1..MaxStarts :
          /\ pc[<<"tm", i>>] = "done"
          /\ pc[<<"hw", i>>] = "done"
          /\ hwErr[i] = ErrSignalKilled
    /\ \E j \in 1..MaxWaiters : pc[<<"w", j>>] = "done"

\* C7: if Stop is called while the process is running, every thread parked
\* in Wait is eventually released, and once Stop has returned the process
\* it signalled is no longer alive.
C7_StopReleasesWaiters ==
    /\ \A j \in 1..MaxWaiters : \A a \in ST :
          (pc[<<"w", j>>] = "w_recv" /\ pc[a] = "st_cancel"
              /\ cmds[stdcmd].state = "running")
            ~> (pc[<<"w", j>>] = "done")
    /\ [][\A a \in ST :
            (pc[a] = "st_kill" /\ pc'[a] = "done") => cmds'[stdcmd].state # "running"]_vars

\* C7 as far as the program does not crash: the waiter is released unless a
\* panic ended the program.
C7_ReleasedUnlessPanic ==
    \A j \in 1..MaxWaiters : \A a \in ST :
        (pc[<<"w", j>>] = "w_recv" /\ pc[a] = "st_cancel"
            /\ cmds[stdcmd].state = "running")
          ~> (pc[<<"w", j>>] = "done" \/ ~Running)

\* The process of the successful Start has ended.
ProcessEnded ==
    /\ stdcmd # 0
    /\ cmds[stdcmd].started
    /\ cmds[stdcmd].state \in {"exited", "killed"}

\* C8: once the process of a successful Start has ended, the handle reaches
\* Finalized and every parked Wait returns.
C8_CompletionIsLive ==
    /\ ProcessEnded ~> isFinalized
    /\ \A j \in 1..MaxWaiters :
          (pc[<<"w", j>>] = "w_recv" /\ ProcessEnded) ~> (pc[<<"w", j>>] = "done")

\* C8 as far as the program does not crash.
C8_LiveUnlessPanic ==
    /\ ProcessEnded ~> (isFinalized \/ ~Running)
    /\ \A j \in 1..MaxWaiters :
          (pc[<<"w", j>>] = "w_recv" /\ ProcessEnded)
            ~> (pc[<<"w", j>>] = "done" \/ ~Running)

\* C9: in every state in which a Wait call has returned, Status.Finish is
\* true and the value it returned is the error stored in Status.Error.
C9_WaitReturnsTerminalError ==
    \A j \in 1..MaxWaiters :
        pc[<<"w", j>>] = "done" =>
            /\ Status.Finish
            /\ waitRet[j] = Status.Error

\* C9, first half alone: Wait never returns before finalize has occurred.
C9_WaitAfterFinalize ==
    \A j \in 1..MaxWaiters : pc[<<"w", j>>] \in {"w_ret", "done"} => isFinalized

\* C10: once finalize has run, no later step changes any field of Status.
C10_StatusImmutable ==
    [][isFinalized => Status' = Status]_vars

\* Every thread that called Wait has returned and every launched watcher is
\* over: nothing will touch the handle's Status for this run any more.
RunIsOver ==
    /\ \A j \in 1..MaxWaiters : pc[<<"w", j>>] = "done"
    /\ \A i \in 1..MaxStarts : pc[<<"hw", i>>] \in {"idle", "done"}
    /\ \A i \in 1..MaxStarts : pc[<<"tm", i>>] \in {"idle", "done"}

\* The process did not end cleanly: it exited with a non-zero status or was
\* killed by the timeout or by Stop.
ProcessFailed ==
    /\ stdcmd # 0
    /\ cmds[stdcmd].started
    /\ \/ cmds[stdcmd].state = "killed"
       \/ cmds[stdcmd].state = "exited" /\ cmds[stdcmd].code # 0

\* C11: once Wait has returned on a command that failed, timed out or was
\* stopped, Status.Output, Status.Stdout and Status.Stderr hold the bytes the
\* process wrote before it ended; output is not discarded on the error paths.
C11_OutputKeptOnFailure ==
    (RunIsOver /\ ProcessFailed) =>
        /\ Status.Stdout = stdout
        /\ Status.Stderr = stderr
        /\ Status.Output = output

\* The process ended on its own with exit status 0.
ProcessSucceeded ==
    /\ stdcmd # 0
    /\ cmds[stdcmd].started
    /\ cmds[stdcmd].state = "exited"
    /\ cmds[stdcmd].code = 0

\* What Status and the returned error are at the return of a Wait call on a
\* command that succeeded.
SuccessStatus(j) ==
    /\ Status'.Finish
    /\ Status'.ExitCode = 0
    /\ Status'.Error = NoError
    /\ waitRet'[j] = NoError
    /\ Status'.PID > 0
    /\ Status'.CostTime = "elapsed"
    /\ nCost' = 1

\* C12: for every command that exits successfully, at the moment Wait returns
\* Status has Finish true, ExitCode 0, a nil Error, a PID above 0 and a
\* CostTime computed (once) from start to finalize.
C12_SuccessStatus ==
    [][\A j \in 1..MaxWaiters :
          (pc[<<"w", j>>] = "w_ret" /\ pc'[<<"w", j>>] = "done" /\ ProcessSucceeded)
            => SuccessStatus(j)]_vars

\* No timeout is configured and Stop is never called.
Undisturbed ==
    /\ timeout = 0
    /\ \A j \in 1..MaxStops : pc[<<"st", j>>] = "idle"

\* C12 on the runs in which neither a timeout nor Stop plays a part.
C12_SuccessUndisturbed ==
    [][\A j \in 1..MaxWaiters :
          (pc[<<"w", j>>] = "w_ret" /\ pc'[<<"w", j>>] = "done" /\ ProcessSucceeded
              /\ Undisturbed)
            => SuccessStatus(j)]_vars

\* C13: once Wait has returned on a command that exited cleanly after
\* writing, Status.Stdout is exactly what went to stdout, Status.Stderr exactly
\* what went to stderr, and Status.Output the combined stream holding every
\* chunk of both once, in the order written.
C13_CleanOutputExact ==
    (RunIsOver /\ ProcessSucceeded) =>
        /\ Status.Stdout = stdout
        /\ Status.Stderr = stderr
        /\ Status.Output = output

\* C13 on the runs in which neither a timeout nor Stop plays a part.
C13_CleanUndisturbed ==
    (RunIsOver /\ ProcessSucceeded /\ Undisturbed) =>
        /\ Status.Stdout = stdout
        /\ Status.Stderr = stderr
        /\ Status.Output = output

\* The error the handle is to report for a process that ended on its own with
\* the given exit status.
NaturalExitError(code) ==
    CASE code = 0 -> NoError
      [] code = 127 -> ErrNotFoundCommand
      [] code = 126 -> ErrNotExecutePermission
      [] code = 128 -> ErrInvalidArgs
      [] OTHER -> <<"exit status ">> \o Digits(code)

\* C14: when the process exits on its own and neither a timeout nor Stop
\* intervened, Status.Error and the value Wait returns are ErrNotFoundCommand
\* for exit status 127, ErrNotExecutePermission for 126, ErrInvalidArgs for
\* 128, otherwise a non-nil error carrying the raw exit status, and nil only
\* for exit status 0.
C14_NaturalExitError ==
    \A j \in 1..MaxWaiters :
        (pc[<<"w", j>>] = "done" /\ stdcmd # 0 /\ cmds[stdcmd].state = "exited") =>
            /\ Status.Error = NaturalExitError(cmds[stdcmd].code)
            /\ waitRet[j] = NaturalExitError(cmds[stdcmd].code)
            /\ (Status.Error = NoError) <=> (cmds[stdcmd].code = 0)
            /\ Status.ExitCode = cmds[stdcmd].code

\* Wait has returned on a process that exited with status 126, and the error
\* is the mapped one.
C14_Witness ==
    /\ stdcmd # 0
    /\ cmds[stdcmd].state = "exited"
    /\ cmds[stdcmd].code = 126
    /\ \E j \in 1..MaxWaiters :
          pc[<<"w", j>>] = "done" /\ waitRet[j] = ErrNotExecutePermission

\* C15: a Start on a handle that is already finished returns
\* ErrAlreadyFinished, spawns no process and changes no field of the handle;
\* the lifecycle only moves forward, so Status.Finish and isFinalized, once
\* true, stay true under any sequence of Start, Stop, Kill and Wait calls.
C15_FinishedStaysFinished ==
    [][/\ Status.Finish => Status'.Finish
       /\ isFinalized => isFinalized'
       /\ (Status.Finish /\ Len(startRet') > Len(startRet)) =>
             /\ startRet' = Append(startRet, ErrAlreadyFinished)
             /\ UNCHANGED <<writers, timeout, Status, isFinalized, mutex, chans, ctx, stdcmd,
                            cmds, buffers, pc, hwCmd, hwErr, waitRet, panicked, counts,
                            ghost>>]_vars

\* A first Start spawned a process, the handle was finalized, and a later
\* Start was refused.
C15_Witness ==
    /\ isFinalized
    /\ Len(startRet) >= 2
    /\ startRet[1] = NoError
    /\ startRet[Len(startRet)] = ErrAlreadyFinished
    /\ Len(cmds) = 1

\* C16: Stop on a handle that is not running is a no-op on the handle.  A
\* step of a Stop call made while no process has been spawned returns at once,
\* changes nothing and leaves the handle startable; a step of a Stop call made
\* once the handle is finalized (a second Stop, or a Stop after natural
\* completion) does not panic, closes no channel and changes no Status field.
C16_StopWhenNotRunning ==
    [][\A a \in ST :
          pc'[a] # pc[a] =>
              /\ (stdcmd = 0 \/ ~cmds[stdcmd].started) =>
                    /\ pc'[a] = "done"
                    /\ ~Status'.Finish
                    /\ UNCHANGED <<writers, timeout, Status, isFinalized, mutex, chans, ctx,
                                   stdcmd, cmds, buffers, locals, panicked, counts,
                                   ghost>>
              /\ isFinalized =>
                    /\ Status' = Status
                    /\ isFinalized'
                    /\ panicked' = "none"
                    /\ UNCHANGED <<chans, counts>>]_vars

\* The process ended on its own, the watcher finalized the handle, and a Stop
\* called afterwards has gone through cancel, finalize and kill and returned.
C16_Witness ==
    /\ finalizedBy \in HW
    /\ finalizedAt.proc = "exited"
    /\ nCloseDone = 1
    /\ \E a \in ST : pc[a] = "done"
    /\ <<stdcmd, "exited">> \in groupKills

\* No Write on the stream is in progress.
StreamIdle == wpc = "idle"

\* No carriage return was written to the stream.
NoCR == \A i \in 1..Len(Flatten(chunks)) : Flatten(chunks)[i] # "\r"

\* C17: the line framing of OutputStream does not depend on the chunking.
\* For Writes without carriage return and without overflow, once the Writes
\* have returned the lines sent on the channel are exactly the
\* newline-terminated lines of the concatenation of the data, in order, every
\* Write reported all its bytes as consumed, and the unterminated rest is
\* held in the carry-over and not sent; no line is dropped when the channel
\* is full.
C17_FramingIgnoresChunking ==
    (StreamIdle /\ NoCR /\ ~overflowed) =>
        /\ pushed = TerminatedLines(Flatten(chunks))
        /\ CarryOver = Unterminated(Flatten(chunks))
        /\ lastChar = Len(buf)
        /\ retErr = NoError
        /\ retN = Len(wP)

\* "ab" and then "b\n" were written, and the one line "abb" was sent.
C17_Witness ==
    /\ StreamIdle
    /\ Len(chunks) >= 2
    /\ chunks[Len(chunks) - 1] = <<"a", "b">>
    /\ chunks[Len(chunks)] = <<"b", "\n">>
    /\ pushed[Len(pushed)] = <<"a", "b", "b">>

\* C18: every complete line Write sends has its trailing CR stripped and
\* nothing else removed, be it the first or a later line of a Write and
\* whether or not CR and LF arrive in the same Write; a line that ends in a
\* bare LF keeps all its bytes.
C18_StripsOnlyTrailingCR ==
    (StreamIdle /\ ~overflowed) =>
        LET ls == TerminatedLines(Flatten(chunks)) IN
        pushed = [i \in 1..Len(ls) |-> DropCR(ls[i])]

\* The bytes of the argument of the Write in progress that follow its last
\* newline.
PartialLine == Unterminated(wP)

\* C19: with the capacity set only before first use, lastChar never exceeds
\* the capacity; a Write whose trailing partial line does not fit behind the
\* carry-over returns ErrLineBufferOverflow with n = the bytes up to the end
\* of its last complete line and leaves the carry-over as it is; every other
\* Write stores the whole partial line and reports all its bytes.
C19_OverflowIsReported ==
    [][/\ lastChar' <= bufSize'
       /\ Len(buf') = lastChar'
       /\ (wpc = "loop" /\ wpc' = "idle") =>
             IF Len(PartialLine) + lastChar > bufSize
             THEN /\ retErr' = ErrLineBufferOverflow
                  /\ retN' = Len(wP) - Len(PartialLine)
                  /\ buf' = buf
                  /\ lastChar' = lastChar
             ELSE /\ retErr' = NoError
                  /\ retN' = Len(wP)
                  /\ buf' = buf \o PartialLine
                  /\ lastChar' = lastChar + Len(PartialLine)]_vars

\* A Write sent a complete line and then returned ErrLineBufferOverflow for
\* the partial line behind it.
C19_Witness ==
    /\ StreamIdle
    /\ retErr = ErrLineBufferOverflow
    /\ retN > 0
    /\ retN < Len(wP)
    /\ bufSize <= MaxCap

\* s is a prefix of t.
IsPrefix(s, t) == Len(s) <= Len(t) /\ SubSeq(t, 1, Len(s)) = s

\* C20: OutputBuffer.Lines never returns a line twice: every result has the
\* result of the call before as a prefix, and two consecutive calls with no
\* Write between them return the same sequence.
C20_LinesNeverDuplicated ==
    nLines >= 2 =>
        /\ IsPrefix(obPrev, obRet)
        /\ obQuiet => obRet = obPrev
        /\ obRet = obLines

\* Lines was called twice in a row after a line was written, and returned that
\* line both times.
C20_Witness ==
    /\ nLines >= 2
    /\ obQuiet
    /\ obRet # <<>>
    /\ obRet = obPrev

\* The writer threads whose bytes are in the buffer.
Copied == {i \in 1..MaxWriters : bwPc[i] \in {"unlock", "done"}}

\* The slices of the threads f[1], f[2], ... one after the other.
RECURSIVE JoinSlices(_)
JoinSlices(f) == IF f = <<>> THEN <<>> ELSE bwP[Head(f)] \o JoinSlices(Tail(f))

\* The orders in which the threads of S can be lined up.
Orders(S) ==
    {f \in [1..Cardinality(S) -> S] : \A x, y \in 1..Cardinality(S) : f[x] = f[y] => x = y}

\* C21: OutputBuffer.Write is atomic with respect to concurrent Write and
\* Lines calls: the bytes accumulated (those Lines has read followed by those
\* still in the buffer) are the slices of the writers that have written,
\* concatenated in some order, each contiguous, none lost or torn, and each
\* Write returns the full length of its slice.
C21_WritesAreAtomic ==
    /\ \E f \in Orders(Copied) : obRead \o obBuf = JoinSlices(f)
    /\ \A i \in Copied : bwRet[i] = Len(bwP[i])
    /\ Cardinality({i \in 1..MaxWriters : bwPc[i] \in {"grow", "copy", "unlock"}}) <= 1

\* Two threads were inside Write at once, one waited for the mutex, both have
\* returned, and a Lines call read the first slice before the second arrived.
C21_Witness ==
    /\ \A i \in 1..MaxWriters : bwPc[i] = "done" /\ bwP[i] # <<>>
    /\ obRead # <<>>
    /\ obBuf # <<>>
    /\ \E i, j \in 1..MaxWriters : bwP[i] # bwP[j]

\* C22: CommandWithChan forwards every line the process writes and closes the
\* queue when the process has exited: once the queue is closed every line
\* written has been put on it, and no reader sends on the closed queue.
C22_AllLinesBeforeClose ==
    /\ queueClosed => cwWritten \subseteq cwQueued
    /\ cwPanic # "send on closed channel"

\* C22, second half alone: no reader sends on the queue after close(queue).
C22_NoSendAfterClose == cwPanic # "send on closed channel"

\* The process exited on its own and the watcher finalized the handle.
CompletedNaturally ==
    /\ finalizedBy \in HW
    /\ finalizedAt.proc = "exited"

\* C23: the signal to the process group (negative pid) is sent only while a
\* running process is being terminated: for a handle whose process exited on
\* its own, no Stop call and no timeout callback sends it to the group of that
\* process.
C23_GroupKillOnlyWhileRunning ==
    CompletedNaturally => \A gk \in groupKills : gk[2] # "exited"

\* C23 for the timeout callback alone: with no explicit Stop call, the callback
\* does not signal the group of a process that completed on its own.
C23_CallbackAfterExit ==
    (CompletedNaturally /\ \A a \in ST : pc[a] = "idle") =>
        \A gk \in groupKills : gk[2] # "exited"

\* C24: every Status value delivered on statusChan is the finalized snapshot:
\* it has Finish true and the PID, ExitCode and CostTime finalize computed.
C24_DeliveredStatusIsFinal ==
    \A n \in 1..Len(statusBuf) :
        /\ statusBuf[n].Finish
        /\ statusBuf[n].PID > 0
        /\ statusBuf[n].CostTime = "elapsed"
        /\ isFinalized =>
              /\ statusBuf[n].PID = Status.PID
              /\ statusBuf[n].ExitCode = Status.ExitCode

\* The chunks of stream s in the buffer b.
CountOf(b, s) == Cardinality({n \in 1..Len(b) : b[n] = s})

\* C25: the combined buffer c.output is never written by the stdout copier
\* and the stderr copier at the same time, so that no chunk of either stream
\* is lost or overwritten in it: whenever both copiers are between two chunks,
\* c.output holds every chunk that c.stdout and c.stderr hold.
C25_CombinedBufferExclusive ==
    /\ ~(\A s \in Streams : cpPc[s] \in {"grow", "copy"})
    /\ (\A s \in Streams : cpPc[s] = "read") =>
          /\ Len(output) = Len(stdout) + Len(stderr)
          /\ CountOf(output, "out") = Len(stdout)
          /\ CountOf(output, "err") = Len(stderr)

\* C25, the effect alone: no chunk is lost from the combined buffer.
C25_NoChunkLost ==
    (\A s \in Streams : cpPc[s] = "read") =>
        /\ CountOf(output, "out") = Len(stdout)
        /\ CountOf(output, "err") = Len(stderr)

\* C26: the lines OutputBuffer.Lines returns do not depend on when Lines is
\* called: a result that covers everything written so far is the newline-split
\* of the concatenation of all bytes written, so a line whose bytes arrive
\* partly before and partly after a Lines call is returned as one line.
C26_LinesIgnoreCallTimes ==
    (nLines >= 1 /\ ~obDirty) => obRet = ScanLines(obWritten)

====
